---- MODULE Spec2Model ----
(***************************************************************************)
(* Model of FetchWorkspaceMessagesService                                  *)
(* (packages/twenty-server/src/workspace/messaging/services/               *)
(*  fetch-workspace-messages.service.ts).                                  *)
(*                                                                         *)
(* The workspace store is six tables (sets of rows); the remote mailbox of *)
(* an account is a list of threads with their message ids.  One invocation *)
(* of fetchConnectedAccountThreads is a process that moves from one await  *)
(* to the next; an awaited operation that rejects ends the invocation      *)
(* (the service has no try/catch).                                         *)
(***************************************************************************)
EXTENDS Integers, Sequences, FiniteSets, TLC

\* ---------------------------------------------------------------- bounds
MaxRuns == 2          \* invocations started in one behaviour
MaxRemoteOps == 3     \* threads/messages that arrive in the remote mailboxes

\* ------------------------------------------------------------- constants
NULL == 0             \* messageThread[0]?.id / person[0]?.id when no row matches
DefaultMaxResults == 500

Procs == {1, 2}
WorkspaceIds == {"W1", "W0"}                  \* W0: no data source can be opened
AccountIds == {"A0", "A1", "A2", "A3", "A4"}  \* A0: no such row
Mailboxes == {"A1", "A2"}                     \* accounts with a gmail mailbox
ThreadIds == {"T1", "T2"}
MsgIds == {"M1", "M2"}
\* the thread and message ids that occur in the mailbox of account a
ThreadIdsOf(a) == IF a = "A1" THEN ThreadIds ELSE {"T1"}
MsgIdsOf(a) == IF a = "A1" THEN MsgIds ELSE {"M1"}
MaxResultsInputs == {1, DefaultMaxResults}

\* sender address of a remote message (GmailMessage.from.value[0].address)
FromOf(m) == IF m = "M1" THEN "a@x.com" ELSE "b@y.com"

VARIABLES
  connectedAccount,   \* table "connectedAccount"
  messageChannel,     \* table "messageChannel"
  person,             \* table "person"
  messageThread,      \* table "messageThread"
  message,            \* table "message"
  messageRecipient,   \* table "messageRecipient"
  remote,             \* remote[a]: the gmail mailbox of account a
  inv,                \* inv[p]: the invocation run by process p
  nextId,             \* source of fresh row ids (uuid)
  runs,               \* invocations started so far
  remoteOps,          \* arrivals in the remote mailboxes so far
  changed,            \* history: changed[p], the mailboxes changed since inv[p] started
  reported,           \* history: reported[a], the ids the known-state query ever returned for a
  insertedBy          \* history: for each inserted row id, the process and account that inserted it

tables == <<connectedAccount, messageChannel, person>>
store == <<messageThread, message, messageRecipient>>
vars == <<connectedAccount, messageChannel, person, messageThread, message,
          messageRecipient, remote, inv, nextId, runs, remoteOps, changed, reported,
          insertedBy>>

\* ------------------------------------------------------------- helpers
Min(a, b) == IF a < b THEN a ELSE b

Range(s) == {s[k] : k \in 1..Len(s)}

\* threads.list({maxResults}): the first maxResults threads of the mailbox
ThreadsList(box, maxResults) == SubSeq(box.threads, 1, Min(maxResults, Len(box.threads)))

\* threadsWithMessageIds.map(thread => thread.messageIds).flat()
RECURSIVE Flat(_)
Flat(ss) == IF ss = <<>> THEN <<>> ELSE Head(ss) \o Flat(Tail(ss))

\* fetchAllThreads: one minimal thread representation per query, in request order
FetchAllThreads(box, threadsData) ==
  [k \in 1..Len(threadsData) |-> [id |-> threadsData[k], messageIds |-> box.msgs[threadsData[k]]]]

\* the remote thread that holds message m
ThreadOfMessage(box, m) == CHOOSE t \in ThreadIds : m \in Range(box.msgs[t])

\* fetchAllMessages: one GmailMessage per query, in request order
FetchAllMessages(box, ids) ==
  [k \in 1..Len(ids) |-> [externalId |-> ids[k],
                           messageThreadId |-> ThreadOfMessage(box, ids[k]),
                           from |-> FromOf(ids[k])]]

\* rows of messageChannel of one connected account
ChannelsOf(a) == {c \in messageChannel : c.connectedAccountId = a}

\* getAllSavedMessagesIdsAndMessageThreadsIdsForConnectedAccount: the join
\* message -> messageThread -> messageChannel filtered by connectedAccountId
SavedJoin(a) ==
  {<<m, t>> \in message \X messageThread :
      /\ m.messageThreadId = t.id
      /\ \E c \in messageChannel : c.id = t.messageChannelId /\ c.connectedAccountId = a}

SavedMessageIds(a) == {r[1].externalId : r \in SavedJoin(a)}
\* variant: every thread row of the account's channels counts as known
SavedThreadIdsAllRows(a) ==
  {t.externalId : t \in {u \in messageThread :
      \E c \in messageChannel : c.id = u.messageChannelId /\ c.connectedAccountId = a}}

SavedThreadIds(a) == {r[2].externalId : r \in SavedJoin(a)}

\* variant: the last new thread is dropped (loop bound off by one)
ThreadsToSaveDropLast(threadsData, savedThreadIds) ==
  LET new == SelectSeq(threadsData, LAMBDA t : t \notin savedThreadIds)
  IN SubSeq(new, 1, Len(new) - 1)

\* variant: the new-thread filter is left out
ThreadsToSaveNoFilter(threadsData, savedThreadIds) == threadsData

\* threadsData.filter(thread => thread.id && !savedThreadIds.includes(thread.id))
ThreadsToSave(threadsData, savedThreadIds) ==
  SelectSeq(threadsData, LAMBDA t : t \notin savedThreadIds)

\* variant: the new-message filter is left out, every listed body is fetched
MessageIdsToSaveNoFilter(messageIds, savedMessageIds) == messageIds

\* messageIds.filter(messageId => !savedMessageIds.includes(messageId))
MessageIdsToSave(messageIds, savedMessageIds) ==
  SelectSeq(messageIds, LAMBDA m : m \notin savedMessageIds)

EmptyBox == [threads |-> <<>>, msgs |-> [t \in ThreadIds |-> <<>>]]

Idle == [pc |-> "idle", account |-> "A0", maxResults |-> 0,
         workspaceMemberId |-> NULL, repeat |-> FALSE,
         threadsData |-> <<>>, savedThreadIds |-> {}, savedMessageIds |-> {},
         threadsToSave |-> <<>>, channelId |-> NULL, k |-> 0,
         messageIds |-> <<>>, messageIdsToSave |-> <<>>, messagesResponse |-> <<>>,
         i |-> 0,
         threadRef |-> NULL, personId |-> NULL, messageId |-> NULL,
         pending |-> {}, status |-> "none", failedAt |-> "none",
         trace |-> <<>>, start |-> <<{}, {}, {}>>]

\* the invocation returns (status "ok") or throws (status = the error); its
\* working values are gone, what it listed, read and fetched is kept as history
Ended(r, status, at) ==
  [r EXCEPT !.pc = "done", !.status = status, !.failedAt = at, !.pending = {},
            !.workspaceMemberId = NULL, !.channelId = NULL, !.k = 0,
            !.threadRef = NULL, !.personId = NULL, !.messageId = NULL]

\* history: the awaited operation op of invocation r has completed
Did(r, op) == [r EXCEPT !.trace = Append(@, op)]

ChannelConfigs ==
  { {[id |-> 1, connectedAccountId |-> "A1"], [id |-> 2, connectedAccountId |-> "A2"]},
    {[id |-> 1, connectedAccountId |-> "A1"]} }

\* ---------------------------------------------------------------- Init
Init ==
  /\ connectedAccount =
       { [id |-> "A1", provider |-> "gmail", refreshToken |-> TRUE, workspaceMemberId |-> 11],
         [id |-> "A2", provider |-> "gmail", refreshToken |-> TRUE, workspaceMemberId |-> 12],
         [id |-> "A3", provider |-> "gmail", refreshToken |-> FALSE, workspaceMemberId |-> 13],
         [id |-> "A4", provider |-> "other", refreshToken |-> TRUE, workspaceMemberId |-> 14] }
  /\ messageChannel \in ChannelConfigs
  /\ person = {[id |-> 21, email |-> "a@x.com"]}
  /\ messageThread = {}
  /\ message = {}
  /\ messageRecipient = {}
  /\ remote = [a \in Mailboxes |-> EmptyBox]
  /\ inv = [p \in Procs |-> Idle]
  /\ nextId = 101
  /\ runs = 0
  /\ remoteOps = 0
  /\ changed = [p \in Procs |-> FALSE]
  /\ reported = [a \in Mailboxes |-> [threads |-> {}, messages |-> {}]]
  /\ insertedBy = {}

\* ------------------------------------------------------------- actions
\* rows that the current invocation of process p inserted
ThreadsInsertedBy(p) ==
  {t \in messageThread \ inv[p].start[1] :
      \E r \in insertedBy : r.id = t.id /\ r.proc = p}

MessagesInsertedBy(p) ==
  {m \in message \ inv[p].start[2] :
      \E r \in insertedBy : r.id = m.id /\ r.proc = p}

RecipientsInsertedBy(p) ==
  {r \in messageRecipient \ inv[p].start[3] :
      \E m \in MessagesInsertedBy(p) : m.id = r.messageId}

AwaitPoints == {"listThreads", "loadKnown", "selectChannel", "insertThread",
                "fetchAllThreads", "fetchAllMessages", "selectThread",
                "txInsertMessage", "txInsertRecipient"}

\* variant: the refresh-token check is left out
ResolveNoTokenCheck(r, workspaceId, connectedAccountId) ==
  LET rows == {a \in connectedAccount : a.provider = "gmail" /\ a.id = connectedAccountId}
  IN IF workspaceId = "W0" THEN Ended(r, "No workspace data source found", "resolve")
     ELSE IF rows = {} THEN Ended(r, "No connected account found", "resolve")
     ELSE [r EXCEPT !.pc = "listThreads",
                    !.workspaceMemberId = (CHOOSE a \in rows : TRUE).workspaceMemberId]

\* getDataSourceMetadataWorkspaceMetadataAndConnectedAccount and the
\* refresh-token check: the outcome of resolving (workspaceId, connectedAccountId)
Resolve(r, workspaceId, connectedAccountId) ==
  LET rows == {a \in connectedAccount : a.provider = "gmail" /\ a.id = connectedAccountId}
  IN IF workspaceId = "W0" THEN Ended(r, "No workspace data source found", "resolve")
     ELSE IF rows = {} THEN Ended(r, "No connected account found", "resolve")
     ELSE LET acc == CHOOSE a \in rows : TRUE
          IN IF ~acc.refreshToken THEN Ended(r, "No refresh token found", "resolve")
             ELSE [r EXCEPT !.pc = "listThreads", !.workspaceMemberId = acc.workspaceMemberId]

\* history: the call repeats the call r that this process completed just
\* before, and the mailboxes did not change since r started
Repeats(r, chg, connectedAccountId, maxResults) ==
  /\ r.pc = "done" /\ r.status = "ok" /\ ~chg
  /\ r.account = connectedAccountId /\ r.maxResults = maxResults

\* fetchConnectedAccountThreads(workspaceId, connectedAccountId, maxResults) is called
Start(p, workspaceId, connectedAccountId, maxResults) ==
  /\ inv[p].pc \in {"idle", "done"}
  /\ runs < MaxRuns
  /\ runs' = runs + 1
  /\ changed' = [changed EXCEPT ![p] = FALSE]
  /\ inv' = [inv EXCEPT ![p] =
        Resolve([Idle EXCEPT !.account = connectedAccountId,
                             !.maxResults = maxResults, !.start = store,
                             !.repeat = Repeats(inv[p], changed[p], connectedAccountId,
                                                maxResults)],
                workspaceId, connectedAccountId)]
  /\ UNCHANGED <<tables, store, remote, nextId, remoteOps, reported, insertedBy>>

\* an invocation starts only when no other one is running
StartSeq(workspaceId, connectedAccountId, maxResults) ==
  /\ \A q \in Procs : inv[q].pc \in {"idle", "done"}
  /\ Start(1, workspaceId, connectedAccountId, maxResults)

\* variant: no return on an empty listing
ListThreadsNoEarlyReturn(p) ==
  /\ inv[p].pc = "listThreads"
  /\ inv' = [inv EXCEPT ![p] =
       [Did(@, "listThreads") EXCEPT
           !.pc = "loadKnown",
           !.threadsData = ThreadsList(remote[inv[p].account], inv[p].maxResults)]]
  /\ UNCHANGED <<tables, store, remote, nextId, runs, remoteOps, changed, reported, insertedBy>>

\* gmailClient.users.threads.list and the empty-listing return
ListThreads(p) ==
  /\ inv[p].pc = "listThreads"
  /\ LET threadsData == ThreadsList(remote[inv[p].account], inv[p].maxResults)
     IN inv' = [inv EXCEPT ![p] =
          IF Len(threadsData) = 0 THEN Ended(Did(@, "listThreads"), "ok", "none")
          ELSE [Did(@, "listThreads") EXCEPT !.pc = "loadKnown",
                                             !.threadsData = threadsData]]
  /\ UNCHANGED <<tables, store, remote, nextId, runs, remoteOps, changed, reported, insertedBy>>

\* the known-state query and the new-thread filter
LoadKnown(p) ==
  /\ inv[p].pc = "loadKnown"
  /\ LET savedThreadIds == SavedThreadIds(inv[p].account)
         savedMessageIds == SavedMessageIds(inv[p].account)
     IN /\ inv' = [inv EXCEPT ![p] =
             [Did(@, "loadKnown") EXCEPT
                 !.pc = "selectChannel",
                 !.savedMessageIds = savedMessageIds,
                 !.savedThreadIds = savedThreadIds,
                 !.threadsToSave = ThreadsToSave(inv[p].threadsData, savedThreadIds)]]
        /\ reported' = [reported EXCEPT ![inv[p].account] =
             [threads |-> @.threads \cup savedThreadIds,
              messages |-> @.messages \cup savedMessageIds]]
  /\ UNCHANGED <<tables, store, remote, nextId, runs, remoteOps, changed, insertedBy>>

\* variant: the channel lookup does not check that a channel was found
SelectChannelNoCheck(p) ==
  /\ inv[p].pc = "selectChannel"
  /\ \E c \in {x.id : x \in ChannelsOf(inv[p].account)} \cup
              (IF ChannelsOf(inv[p].account) = {} THEN {NULL} ELSE {}) :
       inv' = [inv EXCEPT ![p] =
         [Did(@, "selectChannel") EXCEPT
             !.channelId = c, !.k = 1,
             !.pc = IF Len(inv[p].threadsToSave) = 0 THEN "fetchAllThreads"
                    ELSE "insertThread"]]
  /\ UNCHANGED <<tables, store, remote, nextId, runs, remoteOps, changed, reported, insertedBy>>

\* variant: the new threads are not saved before the messages are fetched
SelectChannelSkipSave(p) ==
  /\ inv[p].pc = "selectChannel"
  /\ LET messageChannels == ChannelsOf(inv[p].account)
     IN IF messageChannels = {}
        THEN inv' = [inv EXCEPT ![p] =
               Ended(@, "No message channel found for this connected account", "selectChannel")]
        ELSE \E c \in messageChannels :
               inv' = [inv EXCEPT ![p] =
                 [Did(@, "selectChannel") EXCEPT !.channelId = c.id, !.k = 1,
                                                 !.pc = "fetchAllThreads"]]
  /\ UNCHANGED <<tables, store, remote, nextId, runs, remoteOps, changed, reported, insertedBy>>

\* saveMessageThreads: the channel lookup
SelectChannel(p) ==
  /\ inv[p].pc = "selectChannel"
  /\ LET messageChannels == ChannelsOf(inv[p].account)
     IN IF messageChannels = {}
        THEN inv' = [inv EXCEPT ![p] =
               Ended(@, "No message channel found for this connected account", "selectChannel")]
        ELSE \E c \in messageChannels :
               inv' = [inv EXCEPT ![p] =
                 [Did(@, "selectChannel") EXCEPT !.channelId = c.id, !.k = 1,
                           !.pc = IF Len(inv[p].threadsToSave) = 0 THEN "fetchAllThreads"
                                  ELSE "insertThread"]]
  /\ UNCHANGED <<tables, store, remote, nextId, runs, remoteOps, changed, reported, insertedBy>>

\* variant: the insert is skipped when the channel already has a thread row
\* with this external id (a uniqueness constraint with conflict-ignore)
InsertThreadIgnoreConflict(p) ==
  /\ inv[p].pc = "insertThread"
  /\ LET row == [id |-> nextId, externalId |-> inv[p].threadsToSave[inv[p].k],
                 messageChannelId |-> inv[p].channelId]
         conflict == \E t \in messageThread :
                        /\ t.externalId = row.externalId
                        /\ t.messageChannelId = row.messageChannelId
     IN /\ messageThread' = IF conflict THEN messageThread ELSE messageThread \cup {row}
        /\ insertedBy' = IF conflict THEN insertedBy
                         ELSE insertedBy \cup
                                {[id |-> nextId, proc |-> p, account |-> inv[p].account]}
  /\ nextId' = nextId + 1
  /\ inv' = [inv EXCEPT ![p] =
       [Did(@, "insertThread") EXCEPT
                 !.k = @ + 1,
                 !.pc = IF inv[p].k = Len(inv[p].threadsToSave) THEN "fetchAllThreads"
                        ELSE "insertThread"]]
  /\ UNCHANGED <<tables, message, messageRecipient, remote, runs, remoteOps, changed, reported>>

\* saveMessageThreads: one INSERT INTO "messageThread"
InsertThread(p) ==
  /\ inv[p].pc = "insertThread"
  /\ messageThread' = messageThread \cup
       {[id |-> nextId, externalId |-> inv[p].threadsToSave[inv[p].k],
         messageChannelId |-> inv[p].channelId]}
  /\ insertedBy' = insertedBy \cup
       {[id |-> nextId, proc |-> p, account |-> inv[p].account]}
  /\ nextId' = nextId + 1
  /\ inv' = [inv EXCEPT ![p] =
       [Did(@, "insertThread") EXCEPT
                 !.k = @ + 1,
                 !.pc = IF inv[p].k = Len(inv[p].threadsToSave) THEN "fetchAllThreads"
                        ELSE "insertThread"]]
  /\ UNCHANGED <<tables, message, messageRecipient, remote, runs, remoteOps, changed, reported>>

\* variant: the known message ids are read again before the new-message filter
FetchThreadsRequery(p) ==
  /\ inv[p].pc = "fetchAllThreads"
  /\ LET threadsWithMessageIds == FetchAllThreads(remote[inv[p].account], inv[p].threadsData)
         messageIds == Flat([k \in 1..Len(threadsWithMessageIds) |->
                               threadsWithMessageIds[k].messageIds])
         savedMessageIds == SavedMessageIds(inv[p].account)
     IN inv' = [inv EXCEPT ![p] =
          [Did(@, "fetchAllThreads") EXCEPT !.pc = "fetchAllMessages",
                    !.messageIds = messageIds,
                    !.savedMessageIds = savedMessageIds,
                    !.messageIdsToSave = MessageIdsToSave(messageIds, savedMessageIds)]]
  /\ UNCHANGED <<tables, store, remote, nextId, runs, remoteOps, changed, reported, insertedBy>>

\* variant: message ids are listed only for the threads inserted in this run
FetchThreadsNewOnly(p) ==
  /\ inv[p].pc = "fetchAllThreads"
  /\ LET threadsWithMessageIds == FetchAllThreads(remote[inv[p].account], inv[p].threadsToSave)
         messageIds == Flat([k \in 1..Len(threadsWithMessageIds) |->
                               threadsWithMessageIds[k].messageIds])
     IN inv' = [inv EXCEPT ![p] =
          [Did(@, "fetchAllThreads") EXCEPT !.pc = "fetchAllMessages",
                    !.messageIds = messageIds,
                    !.messageIdsToSave = MessageIdsToSave(messageIds, inv[p].savedMessageIds)]]
  /\ UNCHANGED <<tables, store, remote, nextId, runs, remoteOps, changed, reported, insertedBy>>

\* fetchAllThreads (message ids of every listed thread) and the new-message filter
FetchThreads(p) ==
  /\ inv[p].pc = "fetchAllThreads"
  /\ LET threadsWithMessageIds == FetchAllThreads(remote[inv[p].account], inv[p].threadsData)
         messageIds == Flat([k \in 1..Len(threadsWithMessageIds) |->
                               threadsWithMessageIds[k].messageIds])
     IN inv' = [inv EXCEPT ![p] =
          [Did(@, "fetchAllThreads") EXCEPT !.pc = "fetchAllMessages",
                    !.messageIds = messageIds,
                    !.messageIdsToSave = MessageIdsToSave(messageIds, inv[p].savedMessageIds)]]
  /\ UNCHANGED <<tables, store, remote, nextId, runs, remoteOps, changed, reported, insertedBy>>

\* fetchAllMessages (bodies of the new message ids); saveMessages over an
\* empty batch returns at once
FetchMessages(p) ==
  /\ inv[p].pc = "fetchAllMessages"
  /\ LET messagesResponse == FetchAllMessages(remote[inv[p].account], inv[p].messageIdsToSave)
     IN inv' = [inv EXCEPT ![p] =
          IF Len(messagesResponse) = 0 THEN Ended(Did(@, "fetchAllMessages"), "ok", "none")
          ELSE [Did(@, "fetchAllMessages") EXCEPT
                   !.pc = "selectThread", !.messagesResponse = messagesResponse, !.i = 1]]
  /\ UNCHANGED <<tables, store, remote, nextId, runs, remoteOps, changed, reported, insertedBy>>

\* saveMessages, message i: the parent-thread lookup by external id (the row
\* order of a SELECT without ORDER BY is not determined), v4() and the
\* person lookup
SelectThread(p) ==
  /\ inv[p].pc = "selectThread"
  /\ LET msg == inv[p].messagesResponse[inv[p].i]
         rows == {t \in messageThread : t.externalId = msg.messageThreadId}
         persons == {q \in person : q.email = msg.from}
     IN \E threadRef \in IF rows = {} THEN {NULL} ELSE {t.id : t \in rows} :
        \E personId \in IF persons = {} THEN {NULL} ELSE {q.id : q \in persons} :
          inv' = [inv EXCEPT ![p] =
            [Did(@, "selectThread") EXCEPT !.pc = "txInsertMessage", !.threadRef = threadRef,
                      !.personId = personId, !.messageId = nextId]]
  /\ nextId' = nextId + 1
  /\ UNCHANGED <<tables, store, remote, runs, remoteOps, changed, reported, insertedBy>>

\* variant: the message row is inserted outside of a transaction
TxInsertMessageNoTx(p) ==
  /\ inv[p].pc = "txInsertMessage"
  /\ message' = message \cup
       {[id |-> inv[p].messageId,
         externalId |-> inv[p].messagesResponse[inv[p].i].externalId,
         messageThreadId |-> inv[p].threadRef]}
  /\ insertedBy' = insertedBy \cup
       {[id |-> inv[p].messageId, proc |-> p, account |-> inv[p].account]}
  /\ inv' = [inv EXCEPT ![p] = [Did(@, "txInsertMessage") EXCEPT !.pc = "txInsertRecipient"]]
  /\ UNCHANGED <<tables, messageThread, messageRecipient, remote, nextId, runs, remoteOps,
                 changed, reported>>

\* the transaction of message i: INSERT INTO "message", not yet committed
TxInsertMessage(p) ==
  /\ inv[p].pc = "txInsertMessage"
  /\ inv' = [inv EXCEPT ![p] =
       [Did(@, "txInsertMessage") EXCEPT !.pc = "txInsertRecipient",
                 !.pending = {[id |-> inv[p].messageId,
                               externalId |-> inv[p].messagesResponse[inv[p].i].externalId,
                               messageThreadId |-> inv[p].threadRef]}]]
  /\ UNCHANGED <<tables, store, remote, nextId, runs, remoteOps, changed, reported, insertedBy>>

\* the transaction of message i: INSERT INTO "messageRecipient" and commit
TxInsertRecipient(p) ==
  /\ inv[p].pc = "txInsertRecipient"
  /\ message' = message \cup inv[p].pending
  /\ messageRecipient' = messageRecipient \cup
       {[messageId |-> inv[p].messageId, role |-> "from",
         handle |-> inv[p].messagesResponse[inv[p].i].from,
         personId |-> inv[p].personId,
         workspaceMemberId |-> inv[p].workspaceMemberId]}
  /\ insertedBy' = insertedBy \cup
       {[id |-> inv[p].messageId, proc |-> p, account |-> inv[p].account]}
  /\ inv' = [inv EXCEPT ![p] =
       IF inv[p].i = Len(inv[p].messagesResponse)
       THEN Ended([Did(@, "txInsertRecipient") EXCEPT !.i = @ + 1], "ok", "none")
       ELSE [Did(@, "txInsertRecipient") EXCEPT !.pc = "selectThread", !.i = @ + 1,
                                                !.pending = {}]]
  /\ UNCHANGED <<tables, messageThread, remote, nextId, runs, remoteOps, changed, reported>>

\* variant: one transaction around the whole invocation, a failure rolls back
\* the threads already saved by the invocation
AbortOnRollsBackThreads(p) ==
  /\ inv[p].pc \in AwaitPoints
  /\ inv' = [inv EXCEPT ![p] = Ended(@, "error", @.pc)]
  /\ messageThread' = messageThread \ ThreadsInsertedBy(p)
  /\ insertedBy' = {r \in insertedBy : \A t \in ThreadsInsertedBy(p) : t.id # r.id}
  /\ UNCHANGED <<tables, message, messageRecipient, remote, nextId, runs, remoteOps,
                 changed, reported>>

\* variant: one transaction around the whole batch, a failure rolls back
\* the messages already saved by the invocation
AbortOnRollsBackBatch(p) ==
  /\ inv[p].pc \in AwaitPoints
  /\ inv' = [inv EXCEPT ![p] = Ended(@, "error", @.pc)]
  /\ message' = message \ MessagesInsertedBy(p)
  /\ messageRecipient' = messageRecipient \ RecipientsInsertedBy(p)
  /\ insertedBy' = {r \in insertedBy : \A m \in MessagesInsertedBy(p) : m.id # r.id}
  /\ UNCHANGED <<tables, messageThread, remote, nextId, runs, remoteOps, changed, reported>>

\* an awaited remote call, query or statement rejects: the error propagates
\* out of fetchConnectedAccountThreads; an open transaction is rolled back
AbortOn(p) ==
  /\ inv[p].pc \in AwaitPoints
  /\ inv' = [inv EXCEPT ![p] = Ended(@, "error", @.pc)]
  /\ UNCHANGED <<tables, store, remote, nextId, runs, remoteOps, changed, reported, insertedBy>>

\* the provider: a new thread appears in the mailbox of account a
RemoteAddThread(a, t) ==
  /\ remoteOps < MaxRemoteOps
  /\ t \notin Range(remote[a].threads)
  /\ remote' = [remote EXCEPT ![a].threads = Append(@, t)]
  /\ remoteOps' = remoteOps + 1
  /\ changed' = [p \in Procs |-> TRUE]
  /\ UNCHANGED <<tables, store, inv, nextId, runs, reported, insertedBy>>

\* the provider: a new message appears in thread t of the mailbox of account a
RemoteAddMessage(a, t, m) ==
  /\ remoteOps < MaxRemoteOps
  /\ t \in Range(remote[a].threads)
  /\ \A u \in ThreadIds : m \notin Range(remote[a].msgs[u])
  /\ remote' = [remote EXCEPT ![a].msgs[t] = Append(@, m)]
  /\ remoteOps' = remoteOps + 1
  /\ changed' = [p \in Procs |-> TRUE]
  /\ UNCHANGED <<tables, store, inv, nextId, runs, reported, insertedBy>>

Step(p) ==
  \/ ListThreads(p)
  \/ LoadKnown(p)
  \/ SelectChannel(p)
  \/ InsertThread(p)
  \/ FetchThreads(p)
  \/ FetchMessages(p)
  \/ SelectThread(p)
  \/ TxInsertMessage(p)
  \/ TxInsertRecipient(p)
  \/ AbortOn(p)

\* the provider delivers to the mailbox of account a
Provider(a) ==
  \/ \E t \in ThreadIdsOf(a) : RemoteAddThread(a, t)
  \/ \E t \in ThreadIdsOf(a), m \in MsgIdsOf(a) : RemoteAddMessage(a, t, m)

\* invocations one after the other, for any workspace and account
Next ==
  \/ \E w \in WorkspaceIds, a \in AccountIds, n \in MaxResultsInputs : StartSeq(w, a, n)
  \/ \E p \in Procs : Step(p)
  \/ \E a \in Mailboxes : Provider(a)

Spec == Init /\ [][Next]_vars

\* two invocations for the same account A1, one per process, that may overlap;
\* the mailbox is filled before the first of them starts
InitConc ==
  /\ Init
  /\ \A a \in Mailboxes : ChannelsOf(a) # {}

StartConc(p) ==
  /\ inv[p].pc = "idle"
  /\ Start(p, "W1", "A1", DefaultMaxResults)

NextConc ==
  \/ \E p \in Procs : StartConc(p)
  \/ \E p \in Procs : Step(p)
  \/ runs = 0 /\ Provider("A1")

SpecConc == InitConc /\ [][NextConc]_vars

\* ------------------------------------------------------------ properties
\* the account a row was synced for
SyncedFor(id) == (CHOOSE r \in insertedBy : r.id = id).account

\* thread rows of the channels of account a
ThreadsOfAccount(a) ==
  {t \in messageThread : \E c \in ChannelsOf(a) : c.id = t.messageChannelId}

\* message rows synced for account a
MessagesOfAccount(a) == {m \in message : SyncedFor(m.id) = a}

Returned(p) == inv[p].pc = "done" /\ inv[p].status = "ok"

\* C1: Idempotence.  An invocation that returns, and that repeats the
\* completed invocation just before it (same account, same maxResults) with
\* the mailboxes unchanged since that one started, inserts no row: the store
\* is as it was when the invocation started.
C1_Idempotence ==
  \A p \in Procs :
    (Returned(p) /\ inv[p].repeat /\ ~changed[p]) => store = inv[p].start

\* C2: No duplicate external ids.  With invocations one after the other, the
\* thread rows of an account's channel have pairwise distinct external ids
\* and the message rows synced for the account have pairwise distinct
\* external ids.
C2_NoDuplicateExternalIds ==
  \A a \in Mailboxes :
    /\ \A t, u \in ThreadsOfAccount(a) : t.externalId = u.externalId => t = u
    /\ \A m, n \in MessagesOfAccount(a) : m.externalId = n.externalId => m = n

\* C3: Dedup correctness.  A thread row is never inserted for an account with
\* an external id that the known-state query has reported as a known thread
\* id of that account, in this or an earlier invocation; likewise a message
\* row and the reported known message ids.
C3_DedupCorrectness ==
  [][ /\ \A t \in messageThread' \ messageThread :
            t.externalId \notin reported[SyncedFor(t.id)'].threads
      /\ \A m \in message' \ message :
            m.externalId \notin reported[SyncedFor(m.id)'].messages ]_vars

\* C3 witness: an invocation was told of a known thread and a known message,
\* both listed again, and has inserted a row for an id that was not known.
C3_Witness ==
  \E p \in Procs :
    /\ Returned(p)
    /\ inv[p].savedThreadIds \cap Range(inv[p].threadsData) # {}
    /\ inv[p].savedMessageIds # {}
    /\ ThreadsInsertedBy(p) \cup MessagesInsertedBy(p) # {}

\* C4: Referential integrity.  Every message row references an existing
\* thread row of a channel of the account the message was synced for.
C4_ReferentialIntegrity ==
  \A m \in message :
    /\ m.messageThreadId # NULL
    /\ \E t \in ThreadsOfAccount(SyncedFor(m.id)) : t.id = m.messageThreadId

\* C5: Empty-remote case.  When the thread listing comes back empty the
\* invocation returns without error, the store is as it was at its start, and
\* the listing is the only operation it has performed (no known-state query,
\* no channel lookup, no bulk fetch).
C5_EmptyRemote ==
  \A p \in Procs :
    (inv[p].pc = "done" /\ inv[p].failedAt # "resolve"
       /\ inv[p].failedAt # "listThreads" /\ inv[p].threadsData = <<>>)
    => /\ inv[p].status = "ok"
       /\ store = inv[p].start
       /\ inv[p].trace = <<"listThreads">>

\* C5 witness: an account without a channel has synced an empty mailbox.
C5_Witness ==
  \E p \in Procs :
    /\ Returned(p)
    /\ inv[p].threadsData = <<>>
    /\ ChannelsOf(inv[p].account) = {}

\* the transaction of a message of invocation p failed
TxFailed(p) ==
  inv[p].pc = "done" /\ inv[p].failedAt \in {"txInsertMessage", "txInsertRecipient"}

\* C6: Per-message atomicity.  Every message row has exactly one recipient
\* row with role "from" that references it, and every recipient row
\* references a message row.
C6_PerMessageAtomicity ==
  /\ \A m \in message :
       Cardinality({r \in messageRecipient : r.messageId = m.id /\ r.role = "from"}) = 1
  /\ \A r \in messageRecipient : \E m \in message : m.id = r.messageId

\* C6 witness: the second insert of a transaction failed after a message of
\* the same batch had been committed.
C6_Witness ==
  \E p \in Procs :
    /\ inv[p].pc = "done" /\ inv[p].failedAt = "txInsertRecipient"
    /\ MessagesInsertedBy(p) # {}

\* C7: Failure isolation, earlier messages.  When the transaction of message
\* N of the batch fails, the invocation has a message row and a recipient row
\* for each of the messages 1..N-1 and no row for message N.
C7_EarlierMessagesKept ==
  \A p \in Procs :
    TxFailed(p) =>
      LET N == inv[p].i
          batch == inv[p].messagesResponse
      IN /\ \A j \in 1..(N - 1) :
              \E m \in MessagesInsertedBy(p) :
                 /\ m.externalId = batch[j].externalId
                 /\ \E r \in RecipientsInsertedBy(p) : r.messageId = m.id
         /\ \A m \in MessagesInsertedBy(p) : m.externalId # batch[N].externalId
         /\ Cardinality(MessagesInsertedBy(p)) = N - 1
         /\ Cardinality(RecipientsInsertedBy(p)) = N - 1

\* C7 witness: the transaction of the second message of a batch failed.
C7_Witness ==
  \E p \in Procs : TxFailed(p) /\ inv[p].i = 2

\* C8: Failure isolation, later messages.  When the transaction of message N
\* of the batch fails, every other message of the batch ends up with a
\* message row.
C8_LaterMessagesAttempted ==
  \A p \in Procs :
    TxFailed(p) =>
      \A j \in (1..Len(inv[p].messagesResponse)) \ {inv[p].i} :
        \E m \in MessagesInsertedBy(p) :
          m.externalId = inv[p].messagesResponse[j].externalId

\* saveMessageThreads of invocation p has returned
ThreadsSaved(p) ==
  /\ Len(SelectSeq(inv[p].trace, LAMBDA op : op = "selectChannel")) = 1
  /\ Len(SelectSeq(inv[p].trace, LAMBDA op : op = "insertThread")) = Len(inv[p].threadsToSave)

\* C9: Same-account concurrency gap.  When two invocations for the same
\* account both found the thread id X new and both saved their threads, the
\* account's channel holds at least two thread rows with external id X; when
\* both found the message id Y new and both returned, there are at least two
\* message rows with external id Y synced for the account.
C9_ConcurrentDuplicates ==
  \A p, q \in Procs :
    (p # q /\ inv[p].account = inv[q].account) =>
      /\ (ThreadsSaved(p) /\ ThreadsSaved(q)) =>
           \A X \in Range(inv[p].threadsToSave) \cap Range(inv[q].threadsToSave) :
             Cardinality({t \in ThreadsOfAccount(inv[p].account) : t.externalId = X}) >= 2
      /\ (Returned(p) /\ Returned(q)) =>
           \A Y \in Range(inv[p].messageIdsToSave) \cap Range(inv[q].messageIdsToSave) :
             Cardinality({m \in MessagesOfAccount(inv[p].account) : m.externalId = Y}) >= 2

\* C9 witness: two invocations for one account overlapped, each read the
\* known ids before the other wrote, both found the same thread and the same
\* message new, and both returned.
C9_Witness ==
  \E p, q \in Procs :
    /\ p # q /\ inv[p].account = inv[q].account
    /\ Returned(p) /\ Returned(q)
    /\ ThreadsInsertedBy(q) \cap inv[p].start[1] = {}
    /\ ThreadsInsertedBy(p) \cap inv[q].start[1] = {}
    /\ Range(inv[p].threadsToSave) \cap Range(inv[q].threadsToSave) # {}
    /\ Range(inv[p].messageIdsToSave) \cap Range(inv[q].messageIdsToSave) # {}

\* the account of invocation p is a connected account without a channel
NoChannel(p) ==
  /\ \E a \in connectedAccount : a.id = inv[p].account
  /\ ChannelsOf(inv[p].account) = {}

\* C10 as claimed: Missing channel is fatal.  An invocation for a connected
\* account without a channel ends with an error and inserts no row, whatever
\* the listing returns.
C10_MissingChannelFatal ==
  \A p \in Procs :
    (inv[p].pc = "done" /\ NoChannel(p)) =>
      inv[p].status # "ok" /\ store = inv[p].start

\* C10 amended: an invocation for a connected account without a channel
\* inserts no row; it ends with an error when the listing is not empty, and
\* that error is raised no later than the channel lookup.
C10_MissingChannelFatalUnlessEmpty ==
  \A p \in Procs :
    (inv[p].pc = "done" /\ NoChannel(p)) =>
      /\ store = inv[p].start
      /\ inv[p].threadsData # <<>> =>
           /\ inv[p].status # "ok"
           /\ inv[p].failedAt \in {"loadKnown", "selectChannel"}

\* C10 witness: the channel lookup of an invocation with new threads to save
\* found no channel.
C10_Witness ==
  \E p \in Procs :
    /\ inv[p].pc = "done" /\ NoChannel(p)
    /\ inv[p].threadsToSave # <<>>
    /\ inv[p].status = "No message channel found for this connected account"

\* the errors of the account resolution
ResolveErrors == {"No workspace data source found", "No connected account found",
                  "No refresh token found"}

\* no gmail connected account with this id and a refresh token exists
Unresolvable(a) ==
  \A c \in connectedAccount : ~(c.id = a /\ c.provider = "gmail" /\ c.refreshToken)

\* C11: Fail-fast account resolution.  An invocation whose account cannot be
\* resolved (no such connected account for the provider, or no refresh token),
\* or whose resolution failed (the workspace store cannot be opened included),
\* has ended with one of the resolution errors, has performed no remote or
\* store operation, and the store is as it was when it started.
C11_FailFastResolution ==
  \A p \in Procs :
    /\ (inv[p].pc # "idle" /\ Unresolvable(inv[p].account)) =>
          inv[p].pc = "done" /\ inv[p].failedAt = "resolve"
    /\ (inv[p].pc = "done" /\ inv[p].failedAt = "resolve") =>
          /\ inv[p].status \in ResolveErrors
          /\ inv[p].trace = <<>>
          /\ store = inv[p].start
    /\ (inv[p].pc = "done" /\ inv[p].status \in ResolveErrors) =>
          inv[p].failedAt = "resolve"

\* C11 witness: with rows in the store, an invocation for an account without
\* a refresh token has failed.
C11_Witness ==
  \E p \in Procs :
    /\ inv[p].pc = "done" /\ inv[p].status = "No refresh token found"
    /\ messageThread # {} /\ message # {}

\* positions of operation op in the trace of invocation p
Positions(p, op) == {n \in 1..Len(inv[p].trace) : inv[p].trace[n] = op}

\* every occurrence of an operation of A precedes every occurrence of one of B
Precedes(p, A, B) ==
  \A a \in A, b \in B : \A m \in Positions(p, a), n \in Positions(p, b) : m < n

\* C12: Threads before messages.  In the trace of an invocation every thread
\* insert precedes the message-id listing, the message-body fetch and every
\* message insert; once the message-id listing is done all new threads are
\* inserted, and while a message of the batch is being inserted a thread row
\* with the external id of its remote thread exists.
C12_ThreadsBeforeMessages ==
  \A p \in Procs :
    /\ Precedes(p, {"insertThread"},
                {"fetchAllThreads", "fetchAllMessages", "selectThread",
                 "txInsertMessage", "txInsertRecipient"})
    /\ Positions(p, "fetchAllThreads") # {} =>
         /\ Cardinality(Positions(p, "insertThread")) = Len(inv[p].threadsToSave)
         /\ \A X \in Range(inv[p].threadsToSave) :
               \E t \in ThreadsInsertedBy(p) : t.externalId = X
    /\ inv[p].pc \in {"selectThread", "txInsertMessage", "txInsertRecipient"} =>
         \E t \in messageThread :
            t.externalId = inv[p].messagesResponse[inv[p].i].messageThreadId
    /\ \A m \in MessagesInsertedBy(p) : m.messageThreadId # NULL

\* C12 witness: an invocation that inserted new threads has inserted a
\* message of one of them.
C12_Witness ==
  \E p \in Procs :
    /\ \E m \in MessagesInsertedBy(p), t \in ThreadsInsertedBy(p) : m.messageThreadId = t.id
    /\ Returned(p)

\* the message ids of the queries that invocation p gives to fetchAllMessages
BodiesRequested(p) == Range(inv[p].messageIdsToSave)

\* C13: Two-phase fetch.  The message-body fetch comes after the message-id
\* listing; before the listing is done no body is requested, and from then on
\* the bodies requested are exactly the listed message ids that are not in
\* the known message set read by this invocation, one query for each.
C13_TwoPhaseFetch ==
  \A p \in Procs :
    /\ Precedes(p, {"fetchAllThreads"}, {"fetchAllMessages"})
    /\ Positions(p, "fetchAllMessages") # {} => Positions(p, "fetchAllThreads") # {}
    /\ Positions(p, "fetchAllThreads") = {} =>
         BodiesRequested(p) = {} /\ inv[p].messagesResponse = <<>>
    /\ Positions(p, "fetchAllThreads") # {} =>
         /\ BodiesRequested(p) = Range(inv[p].messageIds) \ inv[p].savedMessageIds
         /\ Len(inv[p].messageIdsToSave) = Cardinality(BodiesRequested(p))

\* C13 witness: the listing held a known and a new message id, and the body
\* of the new one was fetched.
C13_Witness ==
  \E p \in Procs :
    /\ Positions(p, "fetchAllMessages") # {}
    /\ Range(inv[p].messageIds) \cap inv[p].savedMessageIds # {}
    /\ BodiesRequested(p) # {}

\* C14: A thread row is created only the first time its remote id is
\* observed.  Once an invocation has saved its threads, it has inserted a
\* thread row for a listed thread id T if and only if the account's channel
\* held no thread row with external id T when the invocation started.
C14_ThreadCreatedOnce ==
  \A p \in Procs :
    ThreadsSaved(p) =>
      \A T \in Range(inv[p].threadsData) :
        (\E t \in ThreadsInsertedBy(p) : t.externalId = T)
          <=> ~(\E t \in inv[p].start[1] :
                   /\ t.externalId = T
                   /\ \E c \in ChannelsOf(inv[p].account) : c.id = t.messageChannelId)

\* C15: A remote thread with zero messages is still persisted.  An
\* invocation that started on an empty store, listed two threads of which one
\* holds one message and the other none, and returned, leaves exactly two
\* thread rows (one per listed thread, in the account's channel), one message
\* row that references the row of the thread holding the message, and one
\* recipient row, with role "from", of that message.
C15_EmptyThreadPersisted ==
  \A p \in Procs :
    (/\ Returned(p)
     /\ inv[p].start = <<{}, {}, {}>>
     /\ Len(inv[p].threadsData) = 2
     /\ Len(inv[p].messageIds) = 1)
    => /\ Cardinality(messageThread) = 2
       /\ \A T \in Range(inv[p].threadsData) :
            \E t \in ThreadsOfAccount(inv[p].account) : t.externalId = T
       /\ Cardinality(message) = 1
       /\ \A m \in message :
            /\ m.externalId = inv[p].messageIds[1]
            /\ \E t \in messageThread :
                 /\ t.id = m.messageThreadId
                 /\ t.externalId = inv[p].messagesResponse[1].messageThreadId
            /\ messageRecipient # {}
            /\ \A r \in messageRecipient : r.messageId = m.id /\ r.role = "from"
       /\ Cardinality(messageRecipient) = 1

\* C15 witness: such an invocation has returned.
C15_Witness ==
  \E p \in Procs :
    /\ Returned(p)
    /\ inv[p].start = <<{}, {}, {}>>
    /\ Len(inv[p].threadsData) = 2
    /\ Len(inv[p].messageIds) = 1
    /\ Cardinality(messageThread) = 2

\* the message-id listing or the message-body fetch of invocation p failed
UpstreamFailed(p) ==
  inv[p].pc = "done" /\ inv[p].failedAt \in {"fetchAllThreads", "fetchAllMessages"}

\* C16: Upstream failure is fatal and all-or-nothing per batch.  When the
\* message-id listing or the message-body fetch fails, the invocation has
\* ended with the error, the failed operation and every later operation is
\* absent from its trace, it has inserted no message and no recipient row,
\* and the thread rows it inserted before, one per new thread, are in the
\* store.
C16_UpstreamFailureFatal ==
  \A p \in Procs :
    UpstreamFailed(p) =>
      /\ inv[p].status = "error"
      /\ Positions(p, inv[p].failedAt) = {}
      /\ Positions(p, "fetchAllMessages") = {}
      /\ \A op \in {"selectThread", "txInsertMessage", "txInsertRecipient"} :
            Positions(p, op) = {}
      /\ MessagesInsertedBy(p) = {}
      /\ RecipientsInsertedBy(p) = {}
      /\ message = inv[p].start[2] /\ messageRecipient = inv[p].start[3]
      /\ Cardinality(ThreadsInsertedBy(p)) = Len(inv[p].threadsToSave)
      /\ \A X \in Range(inv[p].threadsToSave) :
            \E t \in ThreadsInsertedBy(p) : t.externalId = X

\* C16 witness: the body fetch for a batch of new messages failed after new
\* threads had been inserted.
C16_Witness ==
  \E p \in Procs :
    /\ inv[p].pc = "done" /\ inv[p].failedAt = "fetchAllMessages"
    /\ inv[p].messageIdsToSave # <<>>
    /\ ThreadsInsertedBy(p) # {}

\* C17: Insert-only store.  No step removes or changes a row of
\* messageThread, message or messageRecipient (a step leaves these tables as
\* they are or adds rows), and no step changes the tables connectedAccount,
\* messageChannel and person at all.
C17_InsertOnly ==
  [][ /\ messageThread \subseteq messageThread'
      /\ message \subseteq message'
      /\ messageRecipient \subseteq messageRecipient'
      /\ connectedAccount' = connectedAccount
      /\ messageChannel' = messageChannel
      /\ person' = person ]_vars

\* C17 witness: an invocation that found rows of an earlier one in the store
\* has added rows of its own and has ended.
C17_Witness ==
  \E p \in Procs :
    /\ inv[p].pc = "done"
    /\ inv[p].start[1] # {} /\ inv[p].start[2] # {} /\ inv[p].start[3] # {}
    /\ MessagesInsertedBy(p) # {}
    /\ inv[p].start[1] \subseteq messageThread
    /\ inv[p].start[2] \subseteq message
    /\ inv[p].start[3] \subseteq messageRecipient

\* the known-state query of invocation p has returned
SnapshotTaken(p) == Positions(p, "loadKnown") # {}

\* C18: Single snapshot per run.  The known-state query is the second
\* operation of an invocation, after the thread listing and before any write,
\* and occurs once; the new-thread filter and the new-message filter are
\* taken against the known sets it returned; and no later step of the
\* invocation changes these sets, whatever rows this or another invocation
\* inserts meanwhile.
C18_SingleSnapshot ==
  /\ [](\A p \in Procs :
          /\ Cardinality(Positions(p, "loadKnown")) <= 1
          /\ SnapshotTaken(p) =>
               /\ inv[p].trace[1] = "listThreads" /\ inv[p].trace[2] = "loadKnown"
               /\ inv[p].threadsToSave =
                    SelectSeq(inv[p].threadsData, LAMBDA t : t \notin inv[p].savedThreadIds)
          /\ ~SnapshotTaken(p) =>
               /\ ThreadsInsertedBy(p) = {} /\ MessagesInsertedBy(p) = {}
               /\ inv[p].savedThreadIds = {} /\ inv[p].savedMessageIds = {}
          /\ Positions(p, "fetchAllThreads") # {} =>
               inv[p].messageIdsToSave =
                 SelectSeq(inv[p].messageIds, LAMBDA m : m \notin inv[p].savedMessageIds))
  /\ [][\A p \in Procs :
          (SnapshotTaken(p) /\ "loadKnown" \in Range(inv'[p].trace)) =>
             /\ inv'[p].savedThreadIds = inv[p].savedThreadIds
             /\ inv'[p].savedMessageIds = inv[p].savedMessageIds]_vars

\* C18 witness: an invocation has filtered the listed message ids against
\* its snapshot and treats as new a message id whose row another invocation
\* has inserted since and that the known-state query would now return.
C18_Witness ==
  \E p \in Procs :
    /\ Positions(p, "fetchAllThreads") # {}
    /\ \E Y \in Range(inv[p].messageIdsToSave) :
         /\ Y \notin inv[p].savedMessageIds
         /\ Y \in SavedMessageIds(inv[p].account)
         /\ \A m \in MessagesInsertedBy(p) : m.externalId # Y

\* message rows that reference thread row t
MessagesOfThread(t) == {m \in message : m.messageThreadId = t.id}

\* C19: Known thread set is derived from messages.  When the known-state
\* query has just returned, the known thread ids are the external ids of the
\* thread rows of the account's channel that at least one message row
\* references (a thread row without message rows contributes nothing), and
\* the known message ids are the external ids of the message rows whose
\* thread row belongs to that channel.
C19_KnownFromMessages ==
  \A p \in Procs :
    inv[p].pc = "selectChannel" =>
      /\ inv[p].savedThreadIds =
           {t.externalId : t \in {u \in ThreadsOfAccount(inv[p].account) :
                                     MessagesOfThread(u) # {}}}
      /\ \A t \in ThreadsOfAccount(inv[p].account) :
           (\A u \in ThreadsOfAccount(inv[p].account) :
               u.externalId = t.externalId => MessagesOfThread(u) = {})
           => t.externalId \notin inv[p].savedThreadIds
      /\ inv[p].savedMessageIds =
           {m.externalId : m \in UNION {MessagesOfThread(t) :
                                           t \in ThreadsOfAccount(inv[p].account)}}

\* C19 witness: the known-state query has returned a known thread while the
\* account's channel also holds a thread row without message rows, whose
\* external id is not among the known ones.
C19_Witness ==
  \E p \in Procs :
    /\ inv[p].pc = "selectChannel"
    /\ inv[p].savedThreadIds # {}
    /\ \E t \in ThreadsOfAccount(inv[p].account) :
         /\ MessagesOfThread(t) = {}
         /\ t.externalId \notin inv[p].savedThreadIds

\* the message ids the mailbox of invocation p holds for the threads it listed
ListedMessageIds(p) ==
  UNION {Range(remote[inv[p].account].msgs[t]) : t \in Range(inv[p].threadsData)}

\* message id Y is new to invocation p and belongs to a listed thread that
\* the known-state query reported as known
NewInKnownThread(p, Y) ==
  /\ Y \notin inv[p].savedMessageIds
  /\ \E t \in Range(inv[p].threadsData) \cap inv[p].savedThreadIds :
       Y \in Range(remote[inv[p].account].msgs[t])

\* C20: New messages in known threads are picked up.  With the mailbox
\* unchanged since the invocation started: the message ids it lists are those
\* of every listed thread; when it returns, a message id that is new and
\* belongs to a listed known thread has exactly one message row inserted by
\* the invocation, with one "from" recipient, and the invocation has inserted
\* no thread row for that thread; and every listed message id has a message
\* row, either known to the account or inserted by the invocation.
C20_NewMessagesInKnownThreads ==
  \A p \in Procs :
    ~changed[p] =>
      /\ Positions(p, "fetchAllThreads") # {} => Range(inv[p].messageIds) = ListedMessageIds(p)
      /\ Returned(p) =>
           /\ \A Y \in MsgIds :
                NewInKnownThread(p, Y) =>
                  /\ Cardinality({m \in MessagesInsertedBy(p) : m.externalId = Y}) = 1
                  /\ \A m \in MessagesInsertedBy(p) :
                       m.externalId = Y =>
                         Cardinality({r \in RecipientsInsertedBy(p) :
                                         r.messageId = m.id /\ r.role = "from"}) = 1
                  /\ \A t \in ThreadsInsertedBy(p) :
                       Y \notin Range(remote[inv[p].account].msgs[t.externalId])
           /\ \A Y \in ListedMessageIds(p) :
                \/ Y \in SavedMessageIds(inv[p].account)
                \/ \E m \in MessagesInsertedBy(p) : m.externalId = Y

\* C20 witness: an invocation has returned after a known thread had gained a
\* message; it inserted the row of that message and no thread row.
C20_Witness ==
  \E p \in Procs :
    /\ Returned(p) /\ ~changed[p]
    /\ \E Y \in MsgIds : NewInKnownThread(p, Y)
    /\ Cardinality(MessagesInsertedBy(p)) = 1
    /\ ThreadsInsertedBy(p) = {}

====
